---- MODULE Spec2Model ----
(***************************************************************************)
(* A model of rust-webicon: the icon scraper (src/lib.rs), its candidate   *)
(* strategies (src/strategies.rs) and the content-type mapping             *)
(* (src/util.rs).                                                          *)
(*                                                                         *)
(* Option<T> is modelled as a sequence of length at most one: None is <<>> *)
(* and Some(x) is <<x>>.  Text that the code parses (the sizes attribute)  *)
(* is a sequence of one-character strings.  u32 products are computed in   *)
(* base-256 limbs, so that both the wrapped 32-bit product the code sorts  *)
(* by and the true 64-bit product are exact.                               *)
(***************************************************************************)
EXTENDS Integers, Sequences, FiniteSets, TLC

VARIABLES
    pc,         \* position of the caller: "new", "scraper", "fetching", "collected", "queried",
                \* "guessed", "icon", or a panic: "panic_from_http", "panic_unwrap_none"
    doc_fetch,  \* what the document fetch of from_http did: "none", "transport_err", "text_err", "ok"
    dom,        \* IconScraper.dom: None or Some(sequence of the link[rel*=icon] elements)
    cands,      \* the icons owned by the resolution futures, in candidate order
    tasks,      \* per icon: the state of the fetch / fetch_dimensions call on it
    icons,      \* IconCollection.icons
    query,      \* the query that consumed the collection
    picked      \* the Option<Icon> (or the Vec<Icon>) the query returned

vars == <<pc, doc_fetch, dom, cands, tasks, icons, query, picked>>

----------------------------------------------------------------------------
(* Bounds of the model *)

\* number of link[rel*=icon] elements of a document
MaxLinks == 1
\* length of the enumerated sizes attribute values
MaxLen == 4
\* number of fetch / fetch_dimensions calls a caller makes on one icon
MaxCalls == 2

----------------------------------------------------------------------------
(* Option<T> *)

None == <<>>
Some(x) == <<x>>
IsSome(o) == o # <<>>
Unwrap(o) == o[1]

----------------------------------------------------------------------------
(* u32 arithmetic *)

\* the i-th base-256 limb of a u32, i in 0..3
Limb(a, i) == (a \div (256 ^ i)) % 256

\* one term of the k-th column of the schoolbook product of two u32
Term(a, b, k, i) == IF k - i \in 0..3 THEN Limb(a, i) * Limb(b, k - i) ELSE 0

\* the k-th column of the schoolbook product of two u32
Column(a, b, k) == Term(a, b, k, 0) + Term(a, b, k, 1) + Term(a, b, k, 2) + Term(a, b, k, 3)

RECURSIVE Carry(_, _, _)
Carry(a, b, k) ==
    IF k = 0 THEN 0 ELSE (Column(a, b, k - 1) + Carry(a, b, k - 1)) \div 256

ProductLimb(a, b, k) == (Column(a, b, k) + Carry(a, b, k)) % 256

\* a * b on u32 with wrap-around (the low 32 bits), most significant limb first
WrappingMul(a, b) == [j \in 1..4 |-> ProductLimb(a, b, 4 - j)]

\* the product of two u32 as a mathematical integer (64 bits), most significant limb first
TrueMul(a, b) == [j \in 1..8 |-> ProductLimb(a, b, 8 - j)]

\* Ordering of limb sequences of the same length: -1, 0, 1
RECURSIVE CmpLimbs(_, _)
CmpLimbs(p, q) ==
    IF p = <<>> THEN 0
    ELSE IF Head(p) < Head(q) THEN -1
    ELSE IF Head(p) > Head(q) THEN 1
    ELSE CmpLimbs(Tail(p), Tail(q))

----------------------------------------------------------------------------
(* Icon *)

\* Icon::from_url
from_url(url) ==
    [url |-> url, raw |-> None, mime_type |-> None, width |-> None, height |-> None]

----------------------------------------------------------------------------
(* strategies.rs *)

\* IconScraper.document_url
DocumentUrl == "http://example.com/"

\* Url::join of a base URL with an href
UrlJoin(base, href) ==
    CASE base # "http://example.com/" -> None
      [] href = "http://[" -> None
      [] href = "/favicon.ico" -> Some("http://example.com/favicon.ico")
      [] OTHER -> Some("http://example.com/a.png")

\* str::split('x'): the tokens between the separators, empty tokens included
RECURSIVE SplitX(_)
SplitX(s) ==
    IF s = <<>> THEN << <<>> >>
    ELSE LET r == SplitX(Tail(s))
         IN  IF Head(s) = "x" THEN << <<>> >> \o r
             ELSE << <<Head(s)>> \o r[1] >> \o Tail(r)

DigitChars == <<"0", "1", "2", "3", "4", "5", "6", "7", "8", "9">>

IsDigit(c) == \E i \in 1..10 : DigitChars[i] = c

DigitVal(c) == (CHOOSE i \in 1..10 : DigitChars[i] = c) - 1

\* the digits of a token, most significant first, with checked u32 arithmetic
RECURSIVE ParseDigits(_, _)
ParseDigits(ds, acc) ==
    IF ds = <<>> THEN Some(acc)
    ELSE IF ~IsDigit(Head(ds)) THEN None
    ELSE IF acc > 429496729 \/ (acc = 429496729 /\ DigitVal(Head(ds)) > 5) THEN None
    ELSE ParseDigits(Tail(ds), acc * 10 + DigitVal(Head(ds)))

\* u32::from_str: an optional '+', then at least one digit, no overflow
u32_from_str(tok) ==
    LET ds == IF tok # <<>> /\ Head(tok) = "+" THEN Tail(tok) ELSE tok
    IN  IF ds = <<>> THEN None ELSE ParseDigits(ds, 0)

\* filter_map(|d| u32::from_str(d).ok()) over the tokens
RECURSIVE FilterMapParse(_)
FilterMapParse(toks) ==
    IF toks = <<>> THEN <<>>
    ELSE LET p == u32_from_str(Head(toks))
         IN  (IF IsSome(p) THEN <<Unwrap(p)>> ELSE <<>>) \o FilterMapParse(Tail(toks))

\* the (x, y) pair of the sizes attribute of a link element
ParseSizes(attr) ==
    LET text == IF IsSome(attr) THEN Unwrap(attr) ELSE <<>>
        sizes == FilterMapParse(SplitX(text))
    IN  IF Len(sizes) >= 2
        THEN [width |-> Some(sizes[1]), height |-> Some(sizes[2])]
        ELSE [width |-> None, height |-> None]

\* LinkRelStrategy::get_guesses over the selected elements
RECURSIVE LinkRelGuesses(_)
LinkRelGuesses(links) ==
    IF links = <<>> THEN <<>>
    ELSE LET data == Head(links)
             rest == LinkRelGuesses(Tail(links))
         IN  IF ~IsSome(data.href) THEN rest
             ELSE IF ~IsSome(UrlJoin(DocumentUrl, Unwrap(data.href))) THEN rest
             ELSE LET xy == ParseSizes(data.sizes)
                      icon == [from_url(Unwrap(UrlJoin(DocumentUrl, Unwrap(data.href))))
                                  EXCEPT !.width = xy.width, !.height = xy.height]
                  IN  <<icon>> \o rest

LinkRelStrategy(d) == IF IsSome(d) THEN LinkRelGuesses(Unwrap(d)) ELSE <<>>

\* DefaultFaviconPathStrategy::get_guesses
DefaultFaviconPathStrategy == <<from_url(Unwrap(UrlJoin(DocumentUrl, "/favicon.ico")))>>

----------------------------------------------------------------------------
(* util.rs and the HTTP / image capabilities *)

\* a Content-Type header value whose bytes are not visible ASCII
NonAsciiHeader == "image/png<FF>"

\* HeaderValue::to_str
to_str(hv) == IF hv = NonAsciiHeader THEN None ELSE Some(hv)

Mime(t, st) == [type |-> t, subtype |-> st]

\* Mime::from_str on the header texts of the model
MimeFromStr(s) ==
    CASE s = "image/png" -> Some(Mime("image", "png"))
      [] s = "image/jpeg" -> Some(Mime("image", "jpeg"))
      [] s = "image/gif" -> Some(Mime("image", "gif"))
      [] s = "image/x-icon" -> Some(Mime("image", "x-icon"))
      [] s = "image/vnd.microsoft.icon" -> Some(Mime("image", "vnd.microsoft.icon"))
      [] s = "application/x-icon" -> Some(Mime("application", "x-icon"))
      [] s = "text/html" -> Some(Mime("text", "html"))
      [] OTHER -> None

\* AsImageFormat::parse_image_format
parse_image_format(m) ==
    IF m = Mime("image", "png") THEN Some([mime |-> m, format |-> "Png"])
    ELSE IF m = Mime("image", "jpeg") THEN Some([mime |-> m, format |-> "Jpeg"])
    ELSE IF m = Mime("image", "gif") THEN Some([mime |-> m, format |-> "Gif"])
    ELSE IF m.subtype = "x-icon" \/ m.subtype = "vnd.microsoft.icon"
         THEN Some([mime |-> Mime("image", "x-icon"), format |-> "Ico"])
    ELSE None

\* StatusCode::is_success
is_success(status) == status >= 200 /\ status < 300

\* image::load_from_memory_with_format: the bytes decode only as the format they are in
load_from_memory_with_format(bytes, format) ==
    IF bytes.format = format THEN Some([width |-> bytes.width, height |-> bytes.height])
    ELSE None

----------------------------------------------------------------------------
(* Icon::fetch and Icon::fetch_dimensions *)

Ok == "Ok"
Failed(kind) == [err |-> Some(kind), pending |-> None]

\* ContentType with a header that is no MIME type reported like a missing header
ContentTypeParseErrorAsMissing(ctype) ==
    IF ~IsSome(ctype) THEN [err |-> Some("NoContentType"), mime |-> None]
    ELSE IF ~IsSome(to_str(Unwrap(ctype))) THEN [err |-> Some("NoContentType"), mime |-> None]
    ELSE IF ~IsSome(MimeFromStr(Unwrap(to_str(Unwrap(ctype)))))
         THEN [err |-> Some("NoContentType"), mime |-> None]
    ELSE [err |-> None, mime |-> MimeFromStr(Unwrap(to_str(Unwrap(ctype))))]

\* fetch, the match on the Content-Type header: the Mime or the error
ContentType(ctype) ==
    IF ~IsSome(ctype) THEN [err |-> Some("NoContentType"), mime |-> None]
    ELSE IF ~IsSome(to_str(Unwrap(ctype))) THEN [err |-> Some("NoContentType"), mime |-> None]
    ELSE IF ~IsSome(MimeFromStr(Unwrap(to_str(Unwrap(ctype)))))
         THEN [err |-> Some("BadContentType"), mime |-> None]
    ELSE [err |-> None, mime |-> MimeFromStr(Unwrap(to_str(Unwrap(ctype))))]

\* fetch, from the answer of the GET to the wait for the body
FetchHead(head) ==
    IF ~head.ok THEN Failed("Reqwest")
    ELSE IF ~is_success(head.status) THEN Failed("BadStatusCode")
    ELSE LET ct == ContentType(head.ctype)
         IN  IF IsSome(ct.err) THEN Failed(Unwrap(ct.err))
             ELSE IF ~IsSome(parse_image_format(Unwrap(ct.mime))) THEN Failed("BadContentType")
             ELSE [err |-> None, pending |-> parse_image_format(Unwrap(ct.mime))]

\* FetchBody with the height left out of the final assignments
FetchBodyWidthOnly(icon, pending, body) ==
    IF ~IsSome(body) THEN [result |-> "Reqwest", icon |-> icon]
    ELSE LET image == load_from_memory_with_format(Unwrap(body), pending.format)
         IN  IF ~IsSome(image) THEN [result |-> "Image", icon |-> icon]
             ELSE [result |-> "Ok",
                   icon |-> [icon EXCEPT !.width = Some(Unwrap(image).width),
                                         !.raw = body,
                                         !.mime_type = Some(pending.mime)]]

\* FetchBody with the bytes and the mime type stored before the image is decoded
FetchBodyStoresBeforeDecode(icon, pending, body) ==
    IF ~IsSome(body) THEN [result |-> "Reqwest", icon |-> icon]
    ELSE LET image == load_from_memory_with_format(Unwrap(body), pending.format)
             stored == [icon EXCEPT !.raw = body, !.mime_type = Some(pending.mime)]
         IN  IF ~IsSome(image) THEN [result |-> "Image", icon |-> stored]
             ELSE [result |-> "Ok",
                   icon |-> [stored EXCEPT !.width = Some(Unwrap(image).width),
                                           !.height = Some(Unwrap(image).height)]]

\* fetch, from the body to the end: the result and the icon
FetchBody(icon, pending, body) ==
    IF ~IsSome(body) THEN [result |-> "Reqwest", icon |-> icon]
    ELSE LET image == load_from_memory_with_format(Unwrap(body), pending.format)
         IN  IF ~IsSome(image) THEN [result |-> "Image", icon |-> icon]
             ELSE [result |-> Ok,
                   icon |-> [icon EXCEPT !.width = Some(Unwrap(image).width),
                                         !.height = Some(Unwrap(image).height),
                                         !.raw = body,
                                         !.mime_type = Some(pending.mime)]]

\* fetch, the short-circuit at entry: TRUE when a GET is sent
fetch(icon) == ~IsSome(icon.raw)

\* fetch_dimensions that always delegates to fetch
FetchDimensionsAlwaysFetches(icon) == TRUE

\* fetch_dimensions: TRUE when it delegates to fetch
fetch_dimensions(icon) == ~(IsSome(icon.width) /\ IsSome(icon.height))

\* the state of a call on an icon
NewTask ==
    [st |-> "created", op |-> "none", result |-> None, pending |-> None,
     gets |-> 0, calls |-> 0, head |-> None, body |-> None]

\* a call of fetch or fetch_dimensions on icon i, up to its first await
Call(i, op) ==
    LET t == tasks[i]
        get == (op = "fetch" \/ fetch_dimensions(cands[i])) /\ fetch(cands[i])
    IN  /\ tasks' = [tasks EXCEPT ![i] =
                        [t EXCEPT !.op = op,
                                  !.calls = t.calls + 1,
                                  !.st = IF get THEN "await_get" ELSE "done",
                                  !.result = IF get THEN None ELSE Some(Ok),
                                  !.gets = IF get THEN t.gets + 1 ELSE t.gets,
                                  !.pending = None,
                                  !.head = None,
                                  !.body = None]]
        /\ UNCHANGED cands

\* the answer of the GET reaches the call on icon i
Respond(i, head) ==
    LET t == tasks[i]
        r == FetchHead(head)
    IN  /\ t.st = "await_get"
        /\ tasks' = [tasks EXCEPT ![i] =
                        [t EXCEPT !.head = Some(head),
                                  !.st = IF IsSome(r.err) THEN "done" ELSE "await_body",
                                  !.result = r.err,
                                  !.pending = r.pending]]
        /\ UNCHANGED cands

\* the body of the response reaches the call on icon i
Receive(i, body) ==
    LET t == tasks[i]
        r == FetchBody(cands[i], Unwrap(t.pending), body)
    IN  /\ t.st = "await_body"
        /\ tasks' = [tasks EXCEPT ![i] =
                        [t EXCEPT !.body = Some(body),
                                  !.st = "done",
                                  !.result = Some(r.result),
                                  !.pending = None]]
        /\ cands' = [cands EXCEPT ![i] = r.icon]

----------------------------------------------------------------------------
(* IconCollection *)

\* the key from_raw sorts by: width * height on u32
Area(icon) == WrappingMul(Unwrap(icon.width), Unwrap(icon.height))

\* one insertion of the stable sort: x goes after every element whose key is not greater
RECURSIVE Insert(_, _)
Insert(sorted, x) ==
    IF sorted = <<>> THEN <<x>>
    ELSE LET last == sorted[Len(sorted)]
         IN  IF CmpLimbs(Area(last), Area(x)) = 1
             THEN Insert(SubSeq(sorted, 1, Len(sorted) - 1), x) \o <<last>>
             ELSE sorted \o <<x>>

\* slice::sort_by with the area comparator (a stable sort)
RECURSIVE SortByArea(_)
SortByArea(s) ==
    IF s = <<>> THEN <<>>
    ELSE Insert(SortByArea(SubSeq(s, 1, Len(s) - 1)), s[Len(s)])

\* the comparator of from_raw unwraps an absent width or height (it runs when there are two icons)
FromRawPanics(v) ==
    Len(v) >= 2 /\ \E k \in 1..Len(v) : ~IsSome(v[k].width) \/ ~IsSome(v[k].height)

\* IconCollection::from_raw
from_raw(v) == SortByArea(v)

\* the predicate of skip_while in at_least: "skip", "stop" or "panic" (unwrap of None)
SkipWhile(icon, width, height) ==
    IF ~IsSome(icon.width) THEN "panic"
    ELSE IF Unwrap(icon.width) < width THEN "skip"
    ELSE IF ~IsSome(icon.height) THEN "panic"
    ELSE IF Unwrap(icon.height) < height THEN "skip"
    ELSE "stop"

\* skip_while(..).next() over the icons left after the pop
RECURSIVE Scan(_, _, _)
Scan(rest, width, height) ==
    IF rest = <<>> THEN [panic |-> FALSE, next |-> None]
    ELSE LET p == SkipWhile(Head(rest), width, height)
         IN  IF p = "panic" THEN [panic |-> TRUE, next |-> None]
             ELSE IF p = "stop" THEN [panic |-> FALSE, next |-> Some(Head(rest))]
             ELSE Scan(Tail(rest), width, height)

\* Vec::pop: the last element, if any
Pop(v) == IF v = <<>> THEN None ELSE Some(v[Len(v)])

\* the vector after Vec::pop
Popped(v) == IF v = <<>> THEN <<>> ELSE SubSeq(v, 1, Len(v) - 1)

\* IconCollection::at_least
at_least(v, width, height) ==
    LET largest_ == Pop(v)
        found == Scan(Popped(v), width, height)
    IN  IF found.panic THEN [panic |-> TRUE, value |-> None]
        ELSE [panic |-> FALSE, value |-> IF IsSome(found.next) THEN found.next ELSE largest_]

\* IconCollection::largest
largest(v) == Pop(v)

----------------------------------------------------------------------------
(* The inputs of the model *)

\* the text of a sizes attribute
Chars(n) == [1..n -> {"1", "6", "x", "a"}]

\* sizes attribute values "16x16", "65536x65536"
Sizes16 == <<"1", "6", "x", "1", "6">>
Sizes65536 == <<"6", "5", "5", "3", "6", "x", "6", "5", "5", "3", "6">>

\* some more sizes attribute values: "any", "16x16 32x32", "+16X16x32", "4294967296x1x2"
SizesNotable ==
    { <<"a", "n", "y">>,
      <<"1", "6", "x", "1", "6", " ", "3", "2", "x", "3", "2">>,
      <<"+", "1", "6", "X", "1", "6", "x", "3", "2">>,
      <<"4", "2", "9", "4", "9", "6", "7", "2", "9", "6", "x", "1", "x", "2">>,
      Sizes16, Sizes65536 }

\* every sizes attribute of the exhaustive enumeration
AllSizes == {None} \cup {Some(t) : t \in (UNION {Chars(n) : n \in 0..MaxLen}) \cup SizesNotable}

\* the sizes attributes of the documents of the pipeline
PipelineSizes == {None, Some(Sizes16), Some(Sizes65536)}

Hrefs == {None, Some("http://["), Some("a.png"), Some("/favicon.ico")}

Links == [href : Hrefs, sizes : PipelineSizes]

\* the selected link elements of a document, in document order
Docs == UNION {[1..n -> Links] : n \in 0..MaxLinks}

TransportError == [ok |-> FALSE, status |-> 0, ctype |-> None]

HeaderValues ==
    {"image/png", "image/jpeg", "image/gif", "image/x-icon", "image/vnd.microsoft.icon",
     "application/x-icon", "text/html", "garbage", NonAsciiHeader}

\* every answer to a GET
AllHeads ==
    {TransportError} \cup
    [ok : {TRUE}, status : {200, 204, 301, 404}, ctype : {None} \cup {Some(h) : h \in HeaderValues}]

\* the answers to the GETs of the pipeline
PipelineHeads ==
    {TransportError,
     [ok |-> TRUE, status |-> 404, ctype |-> Some("text/html")],
     [ok |-> TRUE, status |-> 200, ctype |-> None],
     [ok |-> TRUE, status |-> 200, ctype |-> Some("text/html")],
     [ok |-> TRUE, status |-> 200, ctype |-> Some("image/png")],
     [ok |-> TRUE, status |-> 200, ctype |-> Some("image/vnd.microsoft.icon")]}

Image(f, w, h) == [format |-> f, width |-> w, height |-> h]

\* every body: None is a body that could not be read
AllBodies ==
    {None} \cup {Some(Image(f, 16, 16)) : f \in {"Png", "Jpeg", "Gif", "Ico", "Junk"}}
           \cup {Some(Image("Png", 32, 16))}

PipelineBodies ==
    {None, Some(Image("Png", 32, 32)), Some(Image("Ico", 48, 16)), Some(Image("Junk", 0, 0))}

\* the arguments of at_least
QueryDims == {1, 20, 65537}

----------------------------------------------------------------------------
(* The scraper: from_http, fetch_icons and the queries *)

Init ==
    /\ pc = "new"
    /\ doc_fetch = "none"
    /\ dom = None
    /\ cands = <<>>
    /\ tasks = <<>>
    /\ icons = <<>>
    /\ query = None
    /\ picked = None

\* IconScraper::from_http
from_http(url_ok, outcome, doc) ==
    /\ pc = "new"
    /\ IF ~url_ok
       THEN pc' = "panic_from_http" /\ UNCHANGED <<doc_fetch, dom>>
       ELSE /\ doc_fetch' = outcome
            /\ pc' = IF outcome = "transport_err" THEN "panic_from_http" ELSE "scraper"
            /\ dom' = IF outcome = "ok" THEN Some(doc) ELSE None
    /\ UNCHANGED <<cands, tasks, icons, query, picked>>

FromHttp ==
    \E url_ok \in BOOLEAN, outcome \in {"transport_err", "text_err", "ok"}, doc \in Docs :
        from_http(url_ok, outcome, doc)

\* fetch_icons, up to join_all: the guesses of the two strategies, one future each
FetchIconsStart ==
    /\ pc = "scraper"
    /\ cands' = LinkRelStrategy(dom) \o DefaultFaviconPathStrategy
    /\ tasks' = [i \in 1..Len(cands') |-> NewTask]
    /\ pc' = "fetching"
    /\ UNCHANGED <<doc_fetch, dom, icons, query, picked>>

\* the first poll of future i: the call of fetch_dimensions
Poll(i) ==
    /\ pc = "fetching"
    /\ tasks[i].st = "created"
    /\ Call(i, "fetch_dimensions")
    /\ UNCHANGED <<pc, doc_fetch, dom, icons, query, picked>>

\* future i resumes with the answer to its GET
TaskResponse(i) ==
    /\ pc = "fetching"
    /\ \E head \in PipelineHeads : Respond(i, head)
    /\ UNCHANGED <<pc, doc_fetch, dom, icons, query, picked>>

\* future i resumes with the body
TaskBody(i) ==
    /\ pc = "fetching"
    /\ \E body \in PipelineBodies : Receive(i, body)
    /\ UNCHANGED <<pc, doc_fetch, dom, icons, query, picked>>

\* a join that is ready as soon as one future is
AnyFinished(ts) == \E i \in 1..Len(ts) : ts[i].st = "done"

\* join_all is ready when every future is
AllFinished(ts) == \A i \in 1..Len(ts) : ts[i].st = "done"

\* Survivors that gives up on the first failure (a try-join)
SurvivorsAllOrNothing(cs, ts) ==
    IF \E i \in 1..Len(ts) : ts[i].result # Some("Ok") THEN <<>> ELSE cs

\* the outputs of the futures after filter_map: the icons whose fetch_dimensions was Ok
RECURSIVE Survivors(_, _)
Survivors(cs, ts) ==
    IF cs = <<>> THEN <<>>
    ELSE (IF Head(ts).result = Some(Ok) THEN <<Head(cs)>> ELSE <<>>)
         \o Survivors(Tail(cs), Tail(ts))

\* fetch_icons, from join_all to the collection
Join ==
    /\ pc = "fetching"
    /\ AllFinished(tasks)
    /\ IF FromRawPanics(Survivors(cands, tasks))
       THEN pc' = "panic_unwrap_none" /\ UNCHANGED icons
       ELSE pc' = "collected" /\ icons' = from_raw(Survivors(cands, tasks))
    /\ UNCHANGED <<doc_fetch, dom, cands, tasks, query, picked>>

\* IconCollection::at_least consumes the collection; icons keeps the value it consumed
AtLeast ==
    /\ pc = "collected"
    /\ \E width \in QueryDims, height \in QueryDims :
          LET r == at_least(icons, width, height)
          IN  /\ query' = Some([op |-> "at_least", width |-> width, height |-> height])
              /\ pc' = IF r.panic THEN "panic_unwrap_none" ELSE "queried"
              /\ picked' = r.value
    /\ UNCHANGED <<doc_fetch, dom, cands, tasks, icons>>

\* IconCollection::largest
Largest ==
    /\ pc = "collected"
    /\ query' = Some([op |-> "largest", width |-> 0, height |-> 0])
    /\ picked' = largest(icons)
    /\ pc' = "queried"
    /\ UNCHANGED <<doc_fetch, dom, cands, tasks, icons>>

\* IconCollection::into_raw_parts
IntoRawParts ==
    /\ pc = "collected"
    /\ query' = Some([op |-> "into_raw_parts", width |-> 0, height |-> 0])
    /\ picked' = icons
    /\ pc' = "queried"
    /\ UNCHANGED <<doc_fetch, dom, cands, tasks, icons>>

Next ==
    \/ FromHttp
    \/ FetchIconsStart
    \/ \E i \in 1..Len(tasks) : Poll(i)
    \/ \E i \in 1..Len(tasks) : TaskResponse(i)
    \/ \E i \in 1..Len(tasks) : TaskBody(i)
    \/ Join
    \/ AtLeast
    \/ Largest
    \/ IntoRawParts

Spec == Init /\ [][Next]_vars

----------------------------------------------------------------------------
(* LinkRelStrategy.get_guesses called on a scraper built around a parsed   *)
(* document, over every sizes attribute of the enumeration                 *)

InitSizes ==
    /\ pc = "scraper"
    /\ doc_fetch = "none"
    /\ dom \in {Some(<<[href |-> Some("a.png"), sizes |-> a]>>) : a \in AllSizes}
    /\ cands = <<>>
    /\ tasks = <<>>
    /\ icons = <<>>
    /\ query = None
    /\ picked = None

\* LinkRelStrategy::get_guesses
GetGuesses ==
    /\ pc = "scraper"
    /\ cands' = LinkRelStrategy(dom)
    /\ pc' = "guessed"
    /\ UNCHANGED <<doc_fetch, dom, tasks, icons, query, picked>>

NextSizes == GetGuesses

SpecSizes == InitSizes /\ [][NextSizes]_vars

----------------------------------------------------------------------------
(* One icon in the hands of a caller, who calls fetch and fetch_dimensions *)
(* on it, over every answer and every body                                 *)

\* the icons the two strategies produce
GeneratedIcons ==
    {from_url(u) : u \in {"http://example.com/favicon.ico", "http://example.com/a.png"}}
    \cup {LinkRelGuesses(<<l>>)[1] : l \in {m \in Links : LinkRelGuesses(<<m>>) # <<>>}}

InitFetch ==
    /\ pc = "icon"
    /\ doc_fetch = "none"
    /\ dom = None
    /\ cands \in {<<ic>> : ic \in GeneratedIcons}
    /\ tasks = <<NewTask>>
    /\ icons = <<>>
    /\ query = None
    /\ picked = None

\* a call can start when no call on the icon is in progress
Idle(i) == pc = "icon" /\ tasks[i].st \in {"created", "done"} /\ tasks[i].calls < MaxCalls

\* Icon::fetch
IconFetch(i) ==
    /\ Idle(i)
    /\ Call(i, "fetch")
    /\ UNCHANGED <<pc, doc_fetch, dom, icons, query, picked>>

\* Icon::fetch_dimensions
IconFetchDimensions(i) ==
    /\ Idle(i)
    /\ Call(i, "fetch_dimensions")
    /\ UNCHANGED <<pc, doc_fetch, dom, icons, query, picked>>

IconResponse(i) ==
    /\ pc = "icon"
    /\ \E head \in AllHeads : Respond(i, head)
    /\ UNCHANGED <<pc, doc_fetch, dom, icons, query, picked>>

IconBody(i) ==
    /\ pc = "icon"
    /\ \E body \in AllBodies : Receive(i, body)
    /\ UNCHANGED <<pc, doc_fetch, dom, icons, query, picked>>

NextFetch ==
    \/ \E i \in 1..Len(tasks) : IconFetch(i)
    \/ \E i \in 1..Len(tasks) : IconFetchDimensions(i)
    \/ \E i \in 1..Len(tasks) : IconResponse(i)
    \/ \E i \in 1..Len(tasks) : IconBody(i)

SpecFetch == InitFetch /\ [][NextFetch]_vars

----------------------------------------------------------------------------
(* Definitions shared by the properties *)

HasDimensions(icon) == IsSome(icon.width) /\ IsSome(icon.height)

\* width * height as a mathematical integer
TrueArea(icon) == TrueMul(Unwrap(icon.width), Unwrap(icon.height))

AreaLeq(a, b) == CmpLimbs(TrueArea(a), TrueArea(b)) <= 0

Qualifies(icon, width, height) ==
    Unwrap(icon.width) >= width /\ Unwrap(icon.height) >= height

\* the candidates as the strategies produced them
Guessed == LinkRelStrategy(dom) \o DefaultFaviconPathStrategy

Built == pc \in {"collected", "queried"}

Resolving == pc \in {"fetching", "collected", "queried"}

\* every resolution has ended, with Ok or with an error
EveryTaskDone == \A i \in 1..Len(tasks) : IsSome(tasks[i].result)

\* the number of positions of a sequence that hold v
Count(seq, v) == Cardinality({k \in 1..Len(seq) : seq[k] = v})

\* the number of candidates whose resolution was Ok and whose icon is v
CountOk(v) ==
    Cardinality({i \in 1..Len(cands) : tasks[i].result = Some(Ok) /\ cands[i] = v})

\* what one resolution gives when run alone on the guessed candidate with the
\* answer and the body its task received
Alone(i) ==
    LET g == Guessed[i]
        t == tasks[i]
    IN  IF HasDimensions(g) \/ IsSome(g.raw) THEN [result |-> Ok, icon |-> g]
        ELSE IF IsSome(FetchHead(Unwrap(t.head)).err)
             THEN [result |-> Unwrap(FetchHead(Unwrap(t.head)).err), icon |-> g]
        ELSE FetchBody(g, Unwrap(FetchHead(Unwrap(t.head)).pending), Unwrap(t.body))

RECURSIVE AloneSurvivors(_)
AloneSurvivors(n) ==
    IF n = 0 THEN <<>>
    ELSE AloneSurvivors(n - 1) \o (IF Alone(n).result = Ok THEN <<Alone(n).icon>> ELSE <<>>)

----------------------------------------------------------------------------
(* The properties *)

\* C1: at_least returns the first icon in ascending-area order that has
\* width >= min_width and height >= min_height (an icon of least area among
\* those that qualify); when none qualifies it returns the largest icon (one
\* of greatest area); it returns None exactly when the collection is empty.
C1_AtLeastFirstInAreaOrder ==
    (pc = "queried" /\ Unwrap(query).op = "at_least") =>
        LET w == Unwrap(query).width
            h == Unwrap(query).height
            Q == {k \in 1..Len(icons) : Qualifies(icons[k], w, h)}
        IN  /\ (picked = None) <=> (icons = <<>>)
            /\ icons # <<>> =>
                 /\ \E k \in 1..Len(icons) : picked = Some(icons[k])
                 /\ IF Q # {}
                    THEN /\ Qualifies(Unwrap(picked), w, h)
                         /\ \A k \in Q : AreaLeq(Unwrap(picked), icons[k])
                    ELSE \A k \in 1..Len(icons) : AreaLeq(icons[k], Unwrap(picked))

\* C1 on the collections whose areas all fit in 32 bits
C1_AtLeastWithoutOverflow ==
    (\A k \in 1..Len(icons) : CmpLimbs(TrueArea(icons[k]), TrueMul(65536, 65535)) <= 0)
        => C1_AtLeastFirstInAreaOrder

\* C2: largest returns None on an empty collection and otherwise an icon whose
\* true area width x height is at least the area of every icon of the collection.
C2_LargestHasMaxArea ==
    (pc = "queried" /\ Unwrap(query).op = "largest") =>
        /\ icons = <<>> => picked = None
        /\ icons # <<>> =>
             /\ IsSome(picked)
             /\ \A k \in 1..Len(icons) : AreaLeq(icons[k], Unwrap(picked))

\* C2 on the collections whose areas all fit in 32 bits
C2_LargestWithoutOverflow ==
    (\A k \in 1..Len(icons) : CmpLimbs(TrueArea(icons[k]), TrueMul(65536, 65535)) <= 0)
        => C2_LargestHasMaxArea

\* C3: when the document fetch fails (transport failure or unreadable text),
\* from_http does not abort, the scraper has no DOM, and discovery runs with the
\* default-path candidate alone.
C3_DocumentFailureGivesAbsentDom ==
    doc_fetch \in {"transport_err", "text_err"} =>
        /\ pc # "panic_from_http"
        /\ dom = None
        /\ Resolving => cands = DefaultFaviconPathStrategy

\* C4: fetch_icons returns a collection that holds exactly the candidates whose
\* fetch_dimensions succeeded, one entry per occurrence; a failed candidate is
\* dropped and neither aborts discovery nor removes another candidate.
C4_CollectionIsTheSuccesses ==
    /\ pc # "panic_unwrap_none"
    /\ Built =>
         /\ Len(icons) = Cardinality({i \in 1..Len(tasks) : tasks[i].result = Some(Ok)})
         /\ \A k \in 1..Len(icons) : Count(icons, icons[k]) = CountOk(icons[k])
         /\ \A i \in 1..Len(cands) :
               tasks[i].result = Some(Ok) => Count(icons, cands[i]) = CountOk(cands[i])

\* a failed candidate and a successful one in the same discovery
C4_Witness ==
    /\ pc = "collected"
    /\ Len(icons) = 1
    /\ \E i \in 1..Len(tasks) : tasks[i].result = Some("BadStatusCode")
    /\ \E i \in 1..Len(tasks) : tasks[i].result = Some(Ok) /\ tasks[i].gets = 1

\* C5: every icon handed to from_raw by fetch_icons, and every icon of a
\* collection, has its width and its height; no unwrap of from_raw or at_least
\* meets an absent value.
C5_CollectionIconsHaveDimensions ==
    /\ pc # "panic_unwrap_none"
    /\ (pc = "fetching" /\ EveryTaskDone) =>
          \A k \in 1..Len(Survivors(cands, tasks)) : HasDimensions(Survivors(cands, tasks)[k])
    /\ Built => \A k \in 1..Len(icons) : HasDimensions(icons[k])

\* a collection of a declared-size icon and a fetched one, queried with at_least
C5_Witness ==
    /\ pc = "queried"
    /\ Unwrap(query).op = "at_least"
    /\ Len(icons) = 2
    /\ \E k \in 1..2 : ~IsSome(icons[k].raw)
    /\ \E k \in 1..2 : IsSome(icons[k].raw)

\* C6: a candidate of the link-rel strategy with a valid sizes attribute is
\* never fetched during discovery: its fetch_dimensions is Ok without a GET, and
\* the icon enters the collection as guessed, with the declared width and
\* height and without raw bytes and mime type.
C6_DeclaredSizeIsNeverFetched ==
    Resolving =>
        \A i \in 1..Len(cands) :
            HasDimensions(Guessed[i]) =>
                /\ tasks[i].gets = 0
                /\ cands[i] = Guessed[i]
                /\ tasks[i].st = "done" => tasks[i].result = Some(Ok)
                /\ Built =>
                     \E k \in 1..Len(icons) :
                        /\ icons[k] = Guessed[i]
                        /\ icons[k].raw = None
                        /\ icons[k].mime_type = None

C6_Witness ==
    /\ pc = "collected"
    /\ \E k \in 1..Len(icons) :
          /\ icons[k].width = Some(65536)
          /\ icons[k].height = Some(65536)
          /\ icons[k].raw = None

\* the Content-Type header of a 2xx response that call i received
Header(i) == Unwrap(tasks[i].head).ctype

GotSuccessStatus(i) ==
    /\ IsSome(tasks[i].head)
    /\ Unwrap(tasks[i].head).ok
    /\ is_success(Unwrap(tasks[i].head).status)

IsText(hv) == IsSome(to_str(hv))

IsMime(hv) == IsText(hv) /\ IsSome(MimeFromStr(Unwrap(to_str(hv))))

RecognizedSubtypes == {"png", "jpeg", "gif", "x-icon", "vnd.microsoft.icon"}

\* C7 as stated: after a 2xx response a missing Content-Type fails with
\* NoContentType, a header that cannot be parsed as a MIME type fails with
\* NoContentType too, and a MIME type that is not a recognized one fails with
\* BadContentType.
C7_UnparseableIsNoContentType ==
    \A i \in 1..Len(tasks) :
        GotSuccessStatus(i) =>
            /\ Header(i) = None => tasks[i].result = Some("NoContentType")
            /\ (IsSome(Header(i)) /\ ~IsMime(Unwrap(Header(i)))) =>
                  tasks[i].result = Some("NoContentType")
            /\ (IsSome(Header(i)) /\ IsMime(Unwrap(Header(i)))
                /\ Unwrap(MimeFromStr(Unwrap(Header(i)))).subtype \notin RecognizedSubtypes) =>
                  tasks[i].result = Some("BadContentType")

\* C7 amended: after a 2xx response a missing Content-Type fails with
\* NoContentType; a header that is not a visible-ASCII string fails with
\* NoContentType; a header that is a string but cannot be parsed as a MIME
\* type fails with BadContentType; a MIME type that is not a recognized one
\* fails with BadContentType.
C7_UnparseableIsBadContentType ==
    \A i \in 1..Len(tasks) :
        GotSuccessStatus(i) =>
            /\ Header(i) = None => tasks[i].result = Some("NoContentType")
            /\ (IsSome(Header(i)) /\ ~IsText(Unwrap(Header(i)))) =>
                  tasks[i].result = Some("NoContentType")
            /\ (IsSome(Header(i)) /\ IsText(Unwrap(Header(i))) /\ ~IsMime(Unwrap(Header(i)))) =>
                  tasks[i].result = Some("BadContentType")
            /\ (IsSome(Header(i)) /\ IsMime(Unwrap(Header(i)))
                /\ Unwrap(MimeFromStr(Unwrap(Header(i)))).subtype \notin RecognizedSubtypes) =>
                  tasks[i].result = Some("BadContentType")

C7_Witness ==
    \E i \in 1..Len(tasks) :
        /\ GotSuccessStatus(i)
        /\ Header(i) = Some("garbage")
        /\ tasks[i].result = Some("BadContentType")

\* C8: the link-rel strategy sets width and height exactly when the first two
\* tokens of the sizes attribute split on 'x' both parse as unsigned integers
\* (width the first, height the second); otherwise both are absent.
C8_FirstTwoTokensDecide ==
    pc = "guessed" =>
        LET attr == Unwrap(dom)[1].sizes
            toks == SplitX(IF IsSome(attr) THEN Unwrap(attr) ELSE <<>>)
            both == /\ Len(toks) >= 2
                    /\ IsSome(u32_from_str(toks[1]))
                    /\ IsSome(u32_from_str(toks[2]))
        IN  /\ Len(cands) = 1
            /\ IF both
               THEN /\ cands[1].width = u32_from_str(toks[1])
                    /\ cands[1].height = u32_from_str(toks[2])
               ELSE cands[1].width = None /\ cands[1].height = None

AllFour(icon) ==
    IsSome(icon.raw) /\ IsSome(icon.mime_type) /\ IsSome(icon.width) /\ IsSome(icon.height)

PairsTogether(icon) ==
    /\ IsSome(icon.raw) <=> IsSome(icon.mime_type)
    /\ IsSome(icon.width) <=> IsSome(icon.height)

\* a step of a call on icon i, as fetch's contract allows it
FetchStepAllowed(i) ==
    \* a field changes only in the step that ends a fetch with Ok, which sets all four
    /\ cands'[i] # cands[i] =>
          /\ tasks'[i].st = "done"
          /\ tasks'[i].result = Some(Ok)
          /\ AllFour(cands'[i])
          /\ cands'[i].url = cands[i].url
    \* a step that ends a call with an error leaves the icon as it was
    /\ (tasks[i].st # "done" /\ tasks'[i].st = "done" /\ tasks'[i].result # Some(Ok)) =>
          cands'[i] = cands[i]
    \* a fetch on an icon that has its raw bytes is Ok at once, without a GET
    /\ (tasks'[i].calls # tasks[i].calls /\ tasks'[i].op = "fetch" /\ IsSome(cands[i].raw)) =>
          /\ tasks'[i].st = "done"
          /\ tasks'[i].result = Some(Ok)
          /\ tasks'[i].gets = tasks[i].gets
          /\ cands'[i] = cands[i]

\* C9: fetch is all-or-nothing: a failure at any step leaves url, raw,
\* mime_type, width and height as they were; a success leaves raw, mime_type,
\* width and height all present; with raw present the call is Ok without a GET
\* and without a change; so raw and mime_type are present together, and width
\* and height are present together, in every state.
C9_FetchIsAllOrNothing ==
    /\ [](\A i \in 1..Len(cands) :
            /\ PairsTogether(cands[i])
            /\ (tasks[i].st = "done" /\ tasks[i].op = "fetch" /\ tasks[i].result = Some(Ok)) =>
                  AllFour(cands[i]))
    /\ [][\A i \in 1..Len(cands) : FetchStepAllowed(i)]_vars

\* a fetch that failed at its last step, the decoding, on an icon without any field
C9_Witness ==
    /\ pc = "icon"
    /\ tasks[1].op = "fetch"
    /\ tasks[1].result = Some("Image")
    /\ tasks[1].gets = 1
    /\ cands[1] = from_url(cands[1].url)

\* a step of the fan-out touches the icon of one task only, the task that ran
OwnIconOnly ==
    pc = "fetching" =>
        \A i \in 1..Len(cands) :
            cands'[i] # cands[i] =>
                /\ tasks'[i] # tasks[i]
                /\ \A j \in 1..Len(cands) : j # i => cands'[j] = cands[j] /\ tasks'[j] = tasks[j]

\* C10: the collection is built only after every resolution has finished; each
\* candidate is resolved by one task, with at most one GET; no task touches the
\* icon of another; and whatever the interleaving, the collection is the one that
\* resolving the candidates one at a time in candidate order gives.
C10_JoinAllThenCollect ==
    /\ [](/\ (Built \/ pc = "panic_unwrap_none") => EveryTaskDone
          /\ Resolving => /\ Len(tasks) = Len(Guessed)
                          /\ \A i \in 1..Len(tasks) : tasks[i].gets <= 1 /\ tasks[i].calls <= 1
          /\ Built => \A i \in 1..Len(tasks) : tasks[i].calls = 1
          /\ (Built /\ EveryTaskDone) => icons = from_raw(AloneSurvivors(Len(tasks))))
    /\ [][OwnIconOnly]_vars

\* two candidates, each fetched with its own GET, both in the collection
C10_Witness ==
    /\ pc = "collected"
    /\ Len(tasks) = 2
    /\ tasks[1].gets = 1
    /\ tasks[2].gets = 1
    /\ Len(icons) = 2
    /\ icons[1] = cands[2]
    /\ icons[2] = cands[1]

====
